---- MODULE Spec2Model ----
(***************************************************************************)
(* gan2png: the batch converter of src/src/main.cpp.                       *)
(*                                                                         *)
(* to_png walks a directory tree; every regular file is loaded in full     *)
(* (readFromFile), checked against the 4-byte signature (validate_file)    *)
(* and, when signed, decoded: 16-colour palette, 16-bit little-endian      *)
(* width and height, 4-bit-per-pixel bitmap expanded to RGBA, and handed   *)
(* to stbi_write_png under <parent>/<stem>.png.                            *)
(*                                                                         *)
(* A file's bytes are given by a small record (signature, header bytes,    *)
(* palette pattern, bitmap pattern, filler, size); Byte(c, i) is the byte  *)
(* the file holds at offset i.  The pixel buffer is kept per pixel (the    *)
(* code only ever copies whole 4-byte colours to offsets i * 4) and        *)
(* sparsely: an index never written still holds the zeros make_unique      *)
(* left there.                                                             *)
(*                                                                         *)
(* The code never checks an index against Buffer::size.  A read outside    *)
(* the buffer's storage (or through the null pointer of an empty Buffer)   *)
(* and a write outside the pixel buffer are undefined behaviour: the       *)
(* model either stops the process (pc = "crashed") or lets the step go on, *)
(* the read yielding one of StrayBytes and the write landing outside the   *)
(* buffer.  readsOutside, wcount and rcount record the accesses made.      *)
(***************************************************************************)
EXTENDS Integers, Sequences, FiniteSets, TLC

VARIABLES
    corpus,       \* which family of file contents the tree holds
    pc,           \* position in to_png
    isDir,        \* std::filesystem::is_directory(path)
    entries,      \* the directory entries under the root when to_png starts
    visited,      \* entries the recursive_directory_iterator has yielded
    file_path,    \* entry.path() of the current iteration
    fileBuffer,   \* Buffer returned by readFromFile
    palette,      \* u8 palette[16][4]
    width,        \* u16
    height,       \* u16
    count,        \* u32 (a Wide)
    allocLen,     \* number of bytes make_unique<u8[]> was asked for (a Wide)
    pixeldata,    \* pixel index -> RGBA, for the pixels written inside the buffer
    y,            \* outer loop counter
    x,            \* inner loop counter
    writes,       \* the stbi_write_png calls made so far
    status,       \* path -> what became of the file, and the size it was loaded with
    result,       \* to_png's return value ("none" until it returns)
    readsOutside, \* offsets the current file was read at outside its storage
    wcount,       \* pixel index -> number of memcpy's that targeted it
    rcount        \* bitmap byte index -> number of times the loop read it

vars == <<corpus, pc, isDir, entries, visited, file_path, fileBuffer, palette,
          width, height, count, allocLen, pixeldata, y, x, writes, status,
          result, readsOutside, wcount, rcount>>

locals == <<palette, width, height, count, allocLen, pixeldata, y, x>>

(***************************************************************************)
(* Constants of main.cpp                                                   *)
(***************************************************************************)
SIGNATURE_OFFSET == 0
SIGNATURE_LENGTH == 4
WIDTH_OFFSET == 1060
HEIGHT_OFFSET == 1062
PALETTE_OFFSET == 1072
IMAGE_OFFSET == 1136
PALETTE_SIZE == 64
PIXEL_STRIDE == 4
NUM_PALETTE_COLORS == PALETTE_SIZE \div PIXEL_STRIDE

ExpectedSignature == <<71, 65, 78, 16>>

(***************************************************************************)
(* Bounds of the model                                                     *)
(***************************************************************************)
MaxFiles == 2      \* regular files in the tree of the batch corpus
MaxW == 4          \* largest low byte of the width in the decode corpus
MaxH == 2          \* largest low byte of the height in the decode corpus
MaxStrayPixels == 16  \* largest width * height followed when the header was read outside the buffer

(***************************************************************************)
(* Fixed-width arithmetic                                                  *)
(***************************************************************************)
RECURSIVE Pow2(_)
Pow2(n) == IF n = 0 THEN 1 ELSE 2 * Pow2(n - 1)

U16(v) == v % Pow2(16)

\* A number that may exceed TLC's 32-bit integers: hi * 2^16 + lo, with
\* lo < 2^16.  A u32 has hi < 2^16 as well.
Wide(hi, lo) == [hi |-> hi, lo |-> lo]

WideOf(n) == Wide(n \div Pow2(16), n % Pow2(16))

WideLeq(a, b) == a.hi < b.hi \/ (a.hi = b.hi /\ a.lo <= b.lo)

\* The exact product of two 16-bit numbers.
Mul16(a, b) ==
    LET t1 == a * (b \div 256)
        t0 == a * (b % 256)
        raw == (t1 % 256) * 256 + t0
    IN  Wide(t1 \div 256 + raw \div Pow2(16), raw % Pow2(16))

\* The exact product of a small number and a wide one.
MulWide(k, v) ==
    LET raw == k * v.lo
    IN  Wide(k * v.hi + raw \div Pow2(16), raw % Pow2(16))

U32(v) == Wide(v.hi % Pow2(16), v.lo)

ShiftLeft(a, n) == a * Pow2(n)
ShiftRight(a, n) == a \div Pow2(n)

RECURSIVE BitOr(_, _)
BitOr(a, b) ==
    IF a = 0 THEN b
    ELSE IF b = 0 THEN a
    ELSE (IF a % 2 = 1 \/ b % 2 = 1 THEN 1 ELSE 0) + 2 * BitOr(a \div 2, b \div 2)

RECURSIVE BitAnd(_, _)
BitAnd(a, b) ==
    IF a = 0 \/ b = 0 THEN 0
    ELSE (IF a % 2 = 1 /\ b % 2 = 1 THEN 1 ELSE 0) + 2 * BitAnd(a \div 2, b \div 2)

(***************************************************************************)
(* File contents                                                           *)
(***************************************************************************)
PalByte(pal, k) ==
    IF pal = "red"
    THEN (IF k < 4 THEN 9
          ELSE IF k = 4 THEN 255
          ELSE IF k < 8 THEN 0
          ELSE (k * 7 + 1) % 256)
    ELSE (k * 13 + 5) % 256

ImgByte(img, k) ==
    IF img = "checker"
    THEN (IF k % 2 = 0 THEN 16 ELSE 1)
    ELSE (k * 83 + 228) % 256

\* The byte a file with contents c holds at offset i (for i < c.size).
Byte(c, i) ==
    IF i >= SIGNATURE_OFFSET /\ i < SIGNATURE_OFFSET + SIGNATURE_LENGTH
    THEN c.sig[i - SIGNATURE_OFFSET + 1]
    ELSE IF i = WIDTH_OFFSET \/ i = WIDTH_OFFSET + 1
    THEN c.dim[i - WIDTH_OFFSET + 1]
    ELSE IF i = HEIGHT_OFFSET \/ i = HEIGHT_OFFSET + 1
    THEN c.dim[i - HEIGHT_OFFSET + 3]
    ELSE IF i >= PALETTE_OFFSET /\ i < PALETTE_OFFSET + PALETTE_SIZE
    THEN PalByte(c.pal, i - PALETTE_OFFSET)
    ELSE IF i >= IMAGE_OFFSET
    THEN ImgByte(c.img, i - IMAGE_OFFSET)
    ELSE c.fill

Content(sig, dim, pal, img, fill, size) ==
    [sig |-> sig, dim |-> dim, pal |-> pal, img |-> img, fill |-> fill,
     size |-> size]

\* The size of a file that holds the whole bitmap of a w x h image.
FullSize(w, h) == IMAGE_OFFSET + ((w * h + 1) \div 2)

Image(w, h, pal, img) ==
    Content(ExpectedSignature, <<w % 256, w \div 256, h % 256, h \div 256>>,
            pal, img, 0, FullSize(w, h))

\* Signatures that differ from the expected one in exactly one byte, and the
\* signature stbi_write_png gives the files it writes.
PngSignature == <<137, 80, 78, 71>>
WrongSignatures ==
    { <<71, 65, 78, 17>>, <<71, 65, 79, 16>>, <<71, 66, 78, 16>>,
      <<70, 65, 78, 16>>, PngSignature }

\* What a file written by stbi_write_png reads back as.
PngFile == Content(PngSignature, <<0, 0, 0, 0>>, "alt", "mix", 13, 70)

\* Files too short to hold the signature: 0 to 3 bytes of "GAN\x10".
ShortFiles ==
    { Content(ExpectedSignature, <<0, 0, 0, 0>>, "alt", "mix", 0, n) :
        n \in 0 .. SIGNATURE_LENGTH - 1 }

\* Signed files cut off inside the header, the palette or the bitmap.
TruncatedFiles ==
    { Content(ExpectedSignature, <<2, 0, 2, 0>>, "red", "checker", 0, n) :
        n \in { SIGNATURE_LENGTH, WIDTH_OFFSET + 1, PALETTE_OFFSET + 6,
                IMAGE_OFFSET + 1 } }

BatchCorpus ==
    { Image(2, 1, "red", "checker"), Image(2, 1, "alt", "mix"),
      Content(<<71, 65, 78, 17>>, <<2, 0, 1, 0>>, "red", "checker", 0,
              FullSize(2, 1)),
      Content(ExpectedSignature, <<0, 0, 0, 0>>, "alt", "mix", 0, 3),
      Content(ExpectedSignature, <<2, 0, 1, 0>>, "red", "checker", 0,
              HEIGHT_OFFSET + 1) }

DecodeCorpus ==
    { Image(w, h, pal, img) :
        w \in 0 .. MaxW, h \in 0 .. MaxH, pal \in {"red", "alt"},
        img \in {"checker", "mix"} }
    \cup { Image(256, 0, "alt", "mix"), Image(0, 257, "alt", "mix"),
           Image(258, 1, "red", "checker") }
    \cup { Content(sig, <<2, 0, 1, 0>>, "red", "checker", fill, size) :
             sig \in WrongSignatures \cup {ExpectedSignature},
             fill \in {0, 16}, size \in {SIGNATURE_LENGTH, FullSize(2, 1)} }
    \cup ShortFiles \cup TruncatedFiles

Corpus(c) == IF c = "batch" THEN BatchCorpus ELSE DecodeCorpus

(***************************************************************************)
(* Buffer and readFromFile                                                 *)
(***************************************************************************)
\* Buffer{}: data = nullptr, size = 0.
EmptyBuffer == [isNull |-> TRUE, data |-> PngFile, size |-> 0]

\* io: whether fopen_s gave a file and fread returned fileSize bytes.
readFromFile(io, c) ==
    IF io = "noopen" THEN EmptyBuffer
    ELSE IF io = "incomplete" THEN EmptyBuffer
    ELSE [isNull |-> FALSE, data |-> c, size |-> c.size]

InBounds(buf, i) == ~buf.isNull /\ i >= 0 /\ i < buf.size

\* buffer.data[i]; stray is what the read yields outside the storage.
ReadByte(buf, i, stray) == IF InBounds(buf, i) THEN Byte(buf.data, i) ELSE stray

Outside(buf, offsets) == { i \in offsets : ~InBounds(buf, i) }

StrayBytes == {0, 16}

(***************************************************************************)
(* validate_file                                                           *)
(***************************************************************************)
\* The loop from index i on: whether it returned true, and the last index read.
RECURSIVE ValidateFrom(_, _, _, _)
ValidateFrom(buf, i, n, stray) ==
    IF i >= n THEN [ok |-> TRUE, last |-> n - 1]
    ELSE IF ReadByte(buf, SIGNATURE_OFFSET + i, stray) # ExpectedSignature[i + 1]
    THEN [ok |-> FALSE, last |-> i]
    ELSE ValidateFrom(buf, i + 1, n, stray)

\* As validate_file, comparing one byte fewer.
validate_file_first3(buf, stray) ==
    ValidateFrom(buf, 0, SIGNATURE_LENGTH - 1, stray)

validate_file(buf, stray) == ValidateFrom(buf, 0, SIGNATURE_LENGTH, stray)

ValidateReads(buf, stray) ==
    { SIGNATURE_OFFSET + i : i \in 0 .. validate_file(buf, stray).last }

(***************************************************************************)
(* Paths                                                                   *)
(***************************************************************************)
\* A file name is a sequence of pieces; "." is a piece of its own.
FileNames ==
    { <<"a", ".", "gan">>, <<"a", ".", "bin">>, <<"a", ".", "png">>,
      <<".", "gan">> }

FilePaths ==
    { [parent |-> "root", name |-> n] : n \in FileNames }
    \cup { [parent |-> "root/sub", name |-> <<"a", ".", "gan">>] }

NoPath == [parent |-> "", name |-> <<>>]

SubDirectory == [parent |-> "root", name |-> <<"sub">>]

Entry(path, regular) ==
    [parent |-> path.parent, name |-> path.name, regular |-> regular]

PathOf(e) == [parent |-> e.parent, name |-> e.name]

Dots(name) == { i \in 1 .. Len(name) : name[i] = "." }

Last(S) == CHOOSE i \in S : \A j \in S : j <= i

\* std::filesystem::path::stem of a file name: up to the last period, unless
\* the name has none, or none but a leading one, or is "." or "..".
Stem(name) ==
    IF Dots(name) = {} \/ name = <<".">> \/ name = <<".", ".">> THEN name
    ELSE IF Last(Dots(name)) = 1 THEN name
    ELSE SubSeq(name, 1, Last(Dots(name)) - 1)

\* file_path.parent_path() / (file_path.stem().string() + ".png")
OutputPath(path) ==
    [parent |-> path.parent, name |-> Stem(path.name) \o <<".", "png">>]

(***************************************************************************)
(* The decode steps as functions of the buffer                             *)
(***************************************************************************)
ZeroColor == <<0, 0, 0, 0>>

PaletteEntryOffset(i) == PALETTE_OFFSET + i * PIXEL_STRIDE

PaletteReads ==
    { PaletteEntryOffset(i) + k : i \in 1 .. NUM_PALETTE_COLORS - 1, k \in 0 .. 2 }

\* As DecodePalette, but trusting the fourth byte the file stores.
PaletteWithStoredAlpha(buf, stray) ==
    [i \in 0 .. NUM_PALETTE_COLORS - 1 |->
        IF i = 0 THEN ZeroColor
        ELSE << ReadByte(buf, PaletteEntryOffset(i) + 0, stray),
                ReadByte(buf, PaletteEntryOffset(i) + 1, stray),
                ReadByte(buf, PaletteEntryOffset(i) + 2, stray),
                ReadByte(buf, PaletteEntryOffset(i) + 3, stray) >>]

\* u8 palette[16][4] = {{0,0,0,0}}; entries 1..15 from the file, alpha 0xFF.
DecodePalette(buf, stray) ==
    [i \in 0 .. NUM_PALETTE_COLORS - 1 |->
        IF i = 0 THEN ZeroColor
        ELSE << ReadByte(buf, PaletteEntryOffset(i) + 0, stray),
                ReadByte(buf, PaletteEntryOffset(i) + 1, stray),
                ReadByte(buf, PaletteEntryOffset(i) + 2, stray),
                255 >>]

\* As ReadU16, with the two bytes in the other order.
ReadU16BigEndian(buf, off, stray) ==
    U16(BitOr(ReadByte(buf, off + 1, stray),
              ShiftLeft(ReadByte(buf, off, stray), 8)))

\* data[off] | (data[off + 1] << 8), narrowed to u16.
ReadU16(buf, off, stray) ==
    U16(BitOr(ReadByte(buf, off, stray),
              ShiftLeft(ReadByte(buf, off + 1, stray), 8)))

HeaderReads ==
    { WIDTH_OFFSET, WIDTH_OFFSET + 1, HEIGHT_OFFSET, HEIGHT_OFFSET + 1 }

\* const u32 count = width * height;  The u16 operands are promoted to int: a
\* product of 2^31 or more overflows it, and the wrapped value the build
\* yields, converted to u32, is the exact product (below 2^32).
PixelCount(w, h) == U32(Mul16(w, h))

\* PIXEL_STRIDE * count, in unsigned 32-bit arithmetic.
AllocBytes(cnt) == U32(MulWide(PIXEL_STRIDE, cnt))

\* As Nibbles, with the high nibble for the first pixel of the pair.
HighNibbleFirst(byte) == <<ShiftRight(byte, 4), BitAnd(byte, 15)>>

\* index1 = byte & 0x0F; index2 = byte >> 4
Nibbles(byte) == <<BitAnd(byte, 15), ShiftRight(byte, 4)>>

\* Whether the 4 bytes of pixel i lie inside the allocated pixel buffer.
PixelInside(i, len) == WideLeq(WideOf((i + 1) * PIXEL_STRIDE), len)

Bump(f, i) ==
    IF i \in DOMAIN f THEN [f EXCEPT ![i] = @ + 1] ELSE f @@ (i :> 1)

Put(f, i, v) ==
    IF i \in DOMAIN f THEN [f EXCEPT ![i] = v] ELSE f @@ (i :> v)

Empty == [i \in {} |-> 0]

\* The pixel buffer byte-for-byte: what pixel i holds.
Pixel(i) == IF i \in DOMAIN pixeldata THEN pixeldata[i] ELSE ZeroColor

(***************************************************************************)
(* to_png                                                                  *)
(***************************************************************************)
ZeroPalette == [i \in 0 .. NUM_PALETTE_COLORS - 1 |-> ZeroColor]

\* The locals of one loop iteration, before it sets them.
FreshLocals ==
    /\ palette' = ZeroPalette
    /\ width' = 0
    /\ height' = 0
    /\ count' = WideOf(0)
    /\ allocLen' = WideOf(0)
    /\ pixeldata' = Empty
    /\ y' = 0
    /\ x' = 0
    /\ wcount' = Empty
    /\ rcount' = Empty

FreshFile ==
    /\ file_path' = NoPath
    /\ fileBuffer' = EmptyBuffer
    /\ readsOutside' = {}

Written == { c.out : c \in writes }

Handled(what, buf) == [what |-> what, size |-> buf.size]

\* What the iterator may still yield: the entries of the tree and, since a
\* file added during the walk may or may not be seen, the files written.
Pending == (entries \cup { Entry(p, TRUE) : p \in Written }) \ visited

\* if (!is_directory(path)) return false;
InvalidDirectory ==
    /\ pc = "start"
    /\ ~isDir
    /\ pc' = "done"
    /\ result' = FALSE
    /\ UNCHANGED <<corpus, isDir, entries, visited, file_path, fileBuffer,
                   locals, writes, status, readsOutside, wcount, rcount>>

BeginIteration ==
    /\ pc = "start"
    /\ isDir
    /\ pc' = "iter"
    /\ UNCHANGED <<corpus, isDir, entries, visited, file_path, fileBuffer,
                   locals, writes, status, result, readsOutside, wcount, rcount>>

\* if (!entry.is_regular_file()) continue;
SkipNonRegular ==
    /\ pc = "iter"
    /\ \E e \in Pending :
        /\ ~e.regular
        /\ visited' = visited \cup {e}
    /\ UNCHANGED <<corpus, pc, isDir, entries, file_path, fileBuffer, locals,
                   writes, status, result, readsOutside, wcount, rcount>>

\* const auto& file_path = entry.path(); fileBuffer = readFromFile(...)
ReadFile ==
    /\ pc = "iter"
    /\ \E e \in Pending :
        /\ e.regular
        /\ visited' = visited \cup {e}
        /\ file_path' = PathOf(e)
        /\ \E io \in {"ok", "noopen", "incomplete"} :
           \E c \in (IF PathOf(e) \in Written THEN {PngFile} ELSE Corpus(corpus)) :
              fileBuffer' = readFromFile(io, c)
    /\ readsOutside' = {}
    /\ pc' = "validate"
    /\ UNCHANGED <<corpus, isDir, entries, locals, writes, status, result,
                   wcount, rcount>>

\* if (!validate_file(fileBuffer)) { printf(...)
ValidateFile ==
    /\ pc = "validate"
    /\ \E stray \in StrayBytes :
        /\ readsOutside' =
              readsOutside \cup Outside(fileBuffer, ValidateReads(fileBuffer, stray))
        /\ pc' = IF validate_file(fileBuffer, stray).ok THEN "palette" ELSE "skip"
    /\ UNCHANGED <<corpus, isDir, entries, visited, file_path, fileBuffer,
                   locals, writes, status, result, wcount, rcount>>

ValidateFileFault ==
    /\ pc = "validate"
    /\ \E stray \in StrayBytes :
        /\ Outside(fileBuffer, ValidateReads(fileBuffer, stray)) # {}
        /\ readsOutside' =
              readsOutside \cup Outside(fileBuffer, ValidateReads(fileBuffer, stray))
    /\ pc' = "crashed"
    /\ UNCHANGED <<corpus, isDir, entries, visited, file_path, fileBuffer,
                   locals, writes, status, result, wcount, rcount>>

\* ... continue; }
SkipInvalid ==
    /\ pc = "skip"
    /\ status' = Put(status, file_path, Handled("skipped", fileBuffer))
    /\ pc' = "iter"
    /\ FreshFile
    /\ UNCHANGED <<corpus, isDir, entries, visited, locals, writes, result,
                   wcount, rcount>>

DecodePaletteStep ==
    /\ pc = "palette"
    /\ \E stray \in StrayBytes : palette' = DecodePalette(fileBuffer, stray)
    /\ readsOutside' = readsOutside \cup Outside(fileBuffer, PaletteReads)
    /\ pc' = "header"
    /\ UNCHANGED <<corpus, isDir, entries, visited, file_path, fileBuffer,
                   width, height, count, allocLen, pixeldata, y, x, writes,
                   status, result, wcount, rcount>>

DecodePaletteFault ==
    /\ pc = "palette"
    /\ Outside(fileBuffer, PaletteReads) # {}
    /\ readsOutside' = readsOutside \cup Outside(fileBuffer, PaletteReads)
    /\ pc' = "crashed"
    /\ UNCHANGED <<corpus, isDir, entries, visited, file_path, fileBuffer,
                   locals, writes, status, result, wcount, rcount>>

\* width, height, count, pixeldata = make_unique<u8[]>(PIXEL_STRIDE * count)
ReadHeader ==
    /\ pc = "header"
    /\ \E stray \in StrayBytes :
        LET w == ReadU16(fileBuffer, WIDTH_OFFSET, stray)
            h == ReadU16(fileBuffer, HEIGHT_OFFSET, stray)
        IN  /\ IF Outside(fileBuffer, HeaderReads) = {} THEN TRUE
               ELSE WideLeq(Mul16(w, h), WideOf(MaxStrayPixels))
            /\ width' = w
            /\ height' = h
            /\ count' = PixelCount(w, h)
            /\ allocLen' = AllocBytes(PixelCount(w, h))
    /\ readsOutside' = readsOutside \cup Outside(fileBuffer, HeaderReads)
    /\ pixeldata' = Empty
    /\ y' = 0
    /\ x' = 0
    /\ pc' = "unpack"
    /\ UNCHANGED <<corpus, isDir, entries, visited, file_path, fileBuffer,
                   palette, writes, status, result, wcount, rcount>>

ReadHeaderFault ==
    /\ pc = "header"
    /\ Outside(fileBuffer, HeaderReads) # {}
    /\ readsOutside' = readsOutside \cup Outside(fileBuffer, HeaderReads)
    /\ pc' = "crashed"
    /\ UNCHANGED <<corpus, isDir, entries, visited, file_path, fileBuffer,
                   locals, writes, status, result, wcount, rcount>>

InLoop == y < height /\ x < width

\* const u64 i1 = y * width + x;
FirstIndex == y * width + x

SecondIndexSkipsOne == FirstIndex + 2

\* const u64 i2 = i1 + 1;
SecondIndex == FirstIndex + 1

\* fileBuffer.data[IMAGE_OFFSET + (i1 >> 1)]
BitmapOffset == IMAGE_OFFSET + ShiftRight(FirstIndex, 1)

\* One pass of the inner loop body, and the loop counters' advance.
UnpackPair ==
    /\ pc = "unpack"
    /\ InLoop
    /\ \E stray \in StrayBytes :
        LET byte == ReadByte(fileBuffer, BitmapOffset, stray)
            first == IF PixelInside(FirstIndex, allocLen)
                     THEN Put(pixeldata, FirstIndex, palette[Nibbles(byte)[1]])
                     ELSE pixeldata
        IN  pixeldata' = IF PixelInside(SecondIndex, allocLen)
                         THEN Put(first, SecondIndex, palette[Nibbles(byte)[2]])
                         ELSE first
    /\ readsOutside' = readsOutside \cup Outside(fileBuffer, {BitmapOffset})
    /\ wcount' = Bump(Bump(wcount, FirstIndex), SecondIndex)
    /\ rcount' = Bump(rcount, ShiftRight(FirstIndex, 1))
    /\ IF x + 2 < width
       THEN x' = x + 2 /\ y' = y
       ELSE x' = 0 /\ y' = y + 1
    /\ UNCHANGED <<corpus, pc, isDir, entries, visited, file_path, fileBuffer,
                   palette, width, height, count, allocLen, writes, status,
                   result>>

UnpackPairFault ==
    /\ pc = "unpack"
    /\ InLoop
    /\ \/ ~InBounds(fileBuffer, BitmapOffset)
       \/ ~PixelInside(FirstIndex, allocLen)
       \/ ~PixelInside(SecondIndex, allocLen)
    /\ readsOutside' = readsOutside \cup Outside(fileBuffer, {BitmapOffset})
    /\ pc' = "crashed"
    /\ UNCHANGED <<corpus, isDir, entries, visited, file_path, fileBuffer,
                   locals, writes, status, result, wcount, rcount>>

UnpackDone ==
    /\ pc = "unpack"
    /\ ~InLoop
    /\ pc' = "write"
    /\ UNCHANGED <<corpus, isDir, entries, visited, file_path, fileBuffer,
                   locals, writes, status, result, readsOutside, wcount, rcount>>

\* stbi_write_png(output_path, width, height, PIXEL_STRIDE, pixeldata, width * PIXEL_STRIDE)
WritePng ==
    /\ pc = "write"
    /\ writes' = writes \cup
          { [src |-> file_path, out |-> OutputPath(file_path), w |-> width,
             h |-> height, comp |-> PIXEL_STRIDE,
             stride |-> width * PIXEL_STRIDE] }
    /\ status' = Put(status, file_path, Handled("written", fileBuffer))
    /\ pc' = "next"
    /\ UNCHANGED <<corpus, isDir, entries, visited, file_path, fileBuffer,
                   locals, result, readsOutside, wcount, rcount>>

\* The end of the loop body: the iteration's locals go out of scope.
EndIteration ==
    /\ pc = "next"
    /\ pc' = "iter"
    /\ FreshFile
    /\ FreshLocals
    /\ UNCHANGED <<corpus, isDir, entries, visited, writes, status, result>>

\* The iterator is exhausted: return true.
Finish ==
    /\ pc = "iter"
    /\ entries \subseteq visited
    /\ pc' = "done"
    /\ result' = TRUE
    /\ UNCHANGED <<corpus, isDir, entries, visited, file_path, fileBuffer,
                   locals, writes, status, readsOutside, wcount, rcount>>

Next ==
    \/ InvalidDirectory
    \/ BeginIteration
    \/ SkipNonRegular
    \/ ReadFile
    \/ ValidateFile
    \/ ValidateFileFault
    \/ SkipInvalid
    \/ DecodePaletteStep
    \/ DecodePaletteFault
    \/ ReadHeader
    \/ ReadHeaderFault
    \/ UnpackPair
    \/ UnpackPairFault
    \/ UnpackDone
    \/ WritePng
    \/ EndIteration
    \/ Finish

(***************************************************************************)
(* Specifications                                                          *)
(***************************************************************************)
Start(c, files) ==
    /\ corpus = c
    /\ pc = "start"
    /\ isDir \in BOOLEAN
    /\ entries = { Entry(p, TRUE) : p \in files } \cup { Entry(SubDirectory, FALSE) }
    /\ visited = {}
    /\ file_path = NoPath
    /\ fileBuffer = EmptyBuffer
    /\ palette = ZeroPalette
    /\ width = 0
    /\ height = 0
    /\ count = WideOf(0)
    /\ allocLen = WideOf(0)
    /\ pixeldata = Empty
    /\ y = 0
    /\ x = 0
    /\ writes = {}
    /\ status = Empty
    /\ result = "none"
    /\ readsOutside = {}
    /\ wcount = Empty
    /\ rcount = Empty

\* A batch: up to MaxFiles files anywhere in the tree, from the batch corpus.
Init ==
    \E files \in SUBSET FilePaths :
        /\ Cardinality(files) <= MaxFiles
        /\ Start("batch", files)

Spec == Init /\ [][Next]_vars

\* One file, from the decode corpus.
InitDecode == Start("decode", { [parent |-> "root", name |-> <<"a", ".", "gan">>] })

SpecDecode == InitDecode /\ [][Next]_vars

\* The header step alone, over signed files whose four header bytes range
\* over HeaderBytes.
HeaderBytes == {0, 1, 64, 128, 255}

InitAlloc ==
    \E dim \in HeaderBytes \X HeaderBytes \X HeaderBytes \X HeaderBytes :
        /\ corpus = "decode"
        /\ pc = "header"
        /\ isDir = TRUE
        /\ entries = { Entry([parent |-> "root", name |-> <<"a", ".", "gan">>], TRUE) }
        /\ visited = entries
        /\ file_path = [parent |-> "root", name |-> <<"a", ".", "gan">>]
        /\ fileBuffer = readFromFile("ok",
              Content(ExpectedSignature, dim, "alt", "mix", 0, IMAGE_OFFSET))
        /\ palette = DecodePalette(fileBuffer, 0)
        /\ width = 0
        /\ height = 0
        /\ count = WideOf(0)
        /\ allocLen = WideOf(0)
        /\ pixeldata = Empty
        /\ y = 0
        /\ x = 0
        /\ writes = {}
        /\ status = Empty
        /\ result = "none"
        /\ readsOutside = {}
        /\ wcount = Empty
        /\ rcount = Empty

SpecAlloc == InitAlloc /\ [][ReadHeader]_vars

(***************************************************************************)
(* Properties                                                              *)
(***************************************************************************)
\* The buffer of the current file holds at least n bytes.
Holds(n) == ~fileBuffer.isNull /\ fileBuffer.size >= n

At(i) == Byte(fileBuffer.data, i)

SignatureBytesMatch == At(0) = 71 /\ At(1) = 65 /\ At(2) = 78 /\ At(3) = 16

\* C1: for every buffer of at least 4 bytes validate_file returns true if and
\* only if bytes 0..3 are 47 41 4E 10: the file goes on to be decoded exactly
\* when they match and is skipped exactly when they do not, whatever the bytes
\* from offset 4 on are, and the check reads nothing outside the buffer.
C1_ValidateIffSignature ==
    Holds(4) =>
        /\ pc = "validate" =>
              \A stray \in StrayBytes :
                  /\ validate_file(fileBuffer, stray).ok <=> SignatureBytesMatch
                  /\ Outside(fileBuffer, ValidateReads(fileBuffer, stray)) = {}
        /\ pc = "palette" => SignatureBytesMatch
        /\ pc = "skip" => ~SignatureBytesMatch

\* A file of full size whose signature is 47 41 4E 11 has been rejected.
C1_Witness ==
    /\ pc = "skip"
    /\ Holds(FullSize(2, 1))
    /\ <<At(0), At(1), At(2), At(3)>> = <<71, 65, 78, 17>>

\* C2: a buffer of fewer than 4 bytes (a short file, or the empty buffer of a
\* failed read) is rejected by validate_file without a read at an index at or
\* beyond the buffer's size: the file is skipped and the batch goes on.
C2_ShortBufferRejectedInBounds ==
    (pc \in {"skip", "palette", "header", "unpack", "write", "next", "crashed"}
        /\ ~Holds(4))
    => (pc = "skip" /\ readsOutside = {})

\* C3: a file of at least 4 bytes that fails the signature check causes no
\* writer call and no output file, every file enumerated after it is still
\* processed, and to_png returns only when every regular file of the tree has
\* been skipped or written.
C3_SkipNeverStopsBatch ==
    /\ \A p \in DOMAIN status :
          status[p].what = "skipped" => \A c \in writes : c.src # p
    /\ pc = "crashed" =>
          ~\E p \in DOMAIN status : status[p].what = "skipped" /\ status[p].size >= 4
    /\ (pc = "done" /\ result = TRUE) =>
          \A e \in entries : e.regular => PathOf(e) \in DOMAIN status

\* C4: the palette of a validated buffer has 16 entries, entry 0 is (0,0,0,0)
\* whatever the file holds at 0x430..0x433, and entry i in 1..15 is the three
\* bytes at 0x430 + 4i with alpha 255 whatever the stored fourth byte is; it is
\* built from the current file alone.
C4_Palette ==
    pc \in {"header", "unpack", "write", "next"} =>
        /\ DOMAIN palette = 0 .. 15
        /\ palette[0] = <<0, 0, 0, 0>>
        /\ \A i \in 1 .. 15 :
            /\ Len(palette[i]) = 4
            /\ palette[i][4] = 255
            /\ \A k \in 0 .. 2 :
                  Holds(1072 + 4 * i + k + 1) => palette[i][k + 1] = At(1072 + 4 * i + k)

\* A second file's palette has been decoded after a first file was written;
\* its slot 0 bytes are not zero and a stored fourth byte is not 255.
C4_Witness ==
    /\ pc = "header"
    /\ writes # {}
    /\ Holds(1136)
    /\ At(1072) # 0
    /\ At(1072 + 7) # 255
    /\ palette[1] = <<255, 0, 0, 255>>

\* C5: width and height are the little-endian 16-bit values at 0x424 and
\* 0x426, and the image writer is called with exactly these and a row stride
\* of width * 4.
C5_Dimensions ==
    /\ (pc \in {"unpack", "write", "next"} /\ Holds(1064)) =>
          /\ width = At(1060) + 256 * At(1061)
          /\ height = At(1062) + 256 * At(1063)
    /\ pc = "next" =>
          /\ \E c \in writes : c.src = file_path
          /\ \A c \in writes :
                c.src = file_path =>
                    c.w = width /\ c.h = height /\ c.stride = width * 4

\* The writer has been called for a 258 x 1 image.
C5_Witness ==
    /\ pc = "next"
    /\ Holds(1064)
    /\ At(1060) = 2 /\ At(1061) = 1 /\ At(1062) = 1 /\ At(1063) = 0
    /\ \E c \in writes : c.w = 258 /\ c.h = 1 /\ c.stride = 1032

\* C6: for even width the unpacking loop writes each pixel index p in
\* 0 .. width*height-1 exactly once and no other index, the colour at p is
\* palette[low nibble of byte p/2 of the bitmap] for even p and
\* palette[high nibble of byte (p-1)/2] for odd p, and each bitmap byte
\* 0 .. width*height/2 - 1 is read exactly once.
C6_EvenWidthWrittenOnce ==
    (pc \in {"unpack", "write", "next"} /\ width % 2 = 0) =>
        /\ \A p \in DOMAIN wcount : p < width * height /\ wcount[p] = 1
        /\ \A b \in DOMAIN rcount : b < (width * height) \div 2 /\ rcount[b] = 1
        /\ pc \in {"write", "next"} =>
            /\ DOMAIN wcount = 0 .. width * height - 1
            /\ DOMAIN rcount = 0 .. (width * height) \div 2 - 1
            /\ DOMAIN pixeldata = DOMAIN wcount
            /\ \A p \in 0 .. width * height - 1 :
                  Holds(1136 + p \div 2 + 1) =>
                      Pixel(p) = IF p % 2 = 0
                                 THEN palette[At(1136 + p \div 2) % 16]
                                 ELSE palette[At(1136 + (p - 1) \div 2) \div 16]

\* A complete 4 x 2 image has been unpacked.
C6_Witness ==
    /\ pc = "write"
    /\ width = 4
    /\ height = 2
    /\ Holds(1136 + 4)
    /\ At(1136) = 228

\* The 4 x 2 image whose palette entry 1 is RGB(255,0,0) and whose bitmap bytes
\* are 10 01 10 01.
Scenario4x2 ==
    /\ Holds(1136 + 4)
    /\ SignatureBytesMatch
    /\ <<At(1060), At(1061), At(1062), At(1063)>> = <<4, 0, 2, 0>>
    /\ <<At(1076), At(1077), At(1078)>> = <<255, 0, 0>>
    /\ <<At(1136), At(1137), At(1138), At(1139)>> = <<16, 1, 16, 1>>

Red == <<255, 0, 0, 255>>
Transparent == <<0, 0, 0, 0>>

\* C7 as stated: decoding that image yields row 0 = red, transparent, red,
\* transparent (palette indices 1,0,1,0).
C7_Row0AsStated ==
    (pc = "write" /\ Scenario4x2) =>
        <<Pixel(0), Pixel(1), Pixel(2), Pixel(3)>> = <<Red, Transparent, Red, Transparent>>

\* C7 (amended): decoding that image yields row 0 with palette indices 0,1,1,0:
\* transparent, red, red, transparent (the low nibble is the left pixel of a pair).
C7_Row0 ==
    (pc = "write" /\ Scenario4x2) =>
        <<Pixel(0), Pixel(1), Pixel(2), Pixel(3)>> = <<Transparent, Red, Red, Transparent>>

C7_Witness == pc = "write" /\ Scenario4x2 /\ DOMAIN pixeldata = 0 .. 7

\* C8: for every width and height in 0..65535 the pixel buffer allocated has
\* exactly width * height * 4 bytes: neither product wraps in 32 bits.
C8_AllocationExact ==
    pc = "unpack" =>
        /\ count = Mul16(width, height)
        /\ allocLen = MulWide(4, Mul16(width, height))

\* C9: for width >= 1 and height >= 1, odd widths included, every write of the
\* unpacking loop targets a pixel index in 0 .. width*height-1.
C9_WritesInsideBuffer ==
    (pc \in {"unpack", "write", "next"} /\ width >= 1 /\ height >= 1) =>
        \A p \in DOMAIN wcount : p <= width * height - 1

\* C10: after a batch there is exactly one output image per valid input,
\* at <parent>/<stem>.png; no two distinct inputs share an output path and no
\* output path is the path of an input file of the batch.  (Stated for the
\* inputs that hold their whole header, palette and bitmap.)
WholeInputs ==
    { c \in writes :
        /\ c.src \in DOMAIN status
        /\ status[c.src].size >= 1136 + (c.w * c.h + 1) \div 2 }

C10_OneOutputPerInput ==
    (pc = "done" /\ result = TRUE) =>
        /\ \A c \in WholeInputs :
              c.out = [parent |-> c.src.parent, name |-> Stem(c.src.name) \o <<".", "png">>]
        /\ \A c, d \in WholeInputs : c.src # d.src => c.out # d.out
        /\ \A c \in WholeInputs : \A e \in entries : e.regular => c.out # PathOf(e)

====
